---- MODULE Spec2Model ----
(***************************************************************************)
(* A model of the hand-rolled stdio JSON-RPC transport of the repository:  *)
(*   - ReadBuffer (append / readMessage / clear) and the "data" handlers   *)
(*     that drain it (experiment3-raw-stdio-client.ts,                     *)
(*     experiment1-stdio-server.ts);                                       *)
(*   - StdioClientTransport and Client (pending-request map);              *)
(*   - StdioServerTransport and Server (request-handler map);              *)
(*   - the HTTP endpoint of jsonrpc.ts, the readline server of             *)
(*     chat-jsonrpc.ts and the POST handlers that keep a session table     *)
(*     (createMCPRouter and its copies, httpServer.ts).                    *)
(*                                                                         *)
(* JSON values are records whose fields hold the JSON text of the member,  *)
(* or ABSENT when the key is missing.  The wire text of a value is         *)
(* abbreviated: one character stands for each `"key":value` member, so a   *)
(* line is "{" members "}" and the bytes are the UTF-8 encoding of the     *)
(* characters.                                                             *)
(***************************************************************************)
EXTENDS Integers, Sequences, FiniteSets, TLC

\* ------------------------------------------------------------------ bounds
MaxLines == 2           \* lines in a byte stream fed to a ReadBuffer
MaxCalls == 2           \* listTools()/callTool() invocations of one client
MaxInput == 2           \* lines a peer of the server alone writes to its stdin
MaxOps == 3             \* calls a caller makes on one transport object
HighWaterMark == 2      \* lines a sink buffers before write() reports it full
MaxPosts == 2           \* POSTs the HTTP endpoint handles
MaxOutput == 2          \* lines a child of the client alone writes to its stdout
MaxChat == 3            \* lines the readline server reads
MaxRequests == 2        \* POSTs an endpoint with a session table handles

\* ------------------------------------------------------------ JSON values
ABSENT == "<absent>"

\* A JSON object with the members the schemas look at.  `type` tells an
\* object from the JavaScript value undefined.
Obj(j, m, i, p, r, e) ==
  [type |-> "object", jsonrpc |-> j, method |-> m, id |-> i,
   params |-> p, result |-> r, error |-> e]

NoValue == [type |-> "undefined", jsonrpc |-> ABSENT, method |-> ABSENT,
            id |-> ABSENT, params |-> ABSENT, result |-> ABSENT, error |-> ABSENT]

Request(m, i, p)     == Obj("2.0", m, i, p, ABSENT, ABSENT)
Notification(m)      == Obj("2.0", m, ABSENT, ABSENT, ABSENT, ABSENT)
SuccessResponse(i, r) == Obj("2.0", ABSENT, i, ABSENT, r, ABSENT)
ErrorResponse(i, e)  == Obj("2.0", ABSENT, i, ABSENT, ABSENT, e)

\* id texts: numbers, a non-empty string, the empty string, null
IsNumber(i)         == i \in {"0", "1", "2", "7", "99"}
IsNonEmptyString(i) == i \in {"\"a\""}
IsString(i)         == i \in {"\"a\"", "\"\""}

\* /^rpc\./i.test(val)
IsReserved(m) == m \in {"rpc.internal", "RPC.x"}

\* ------------------------------------------------ wire text of one member
\* <<member, JSON text, character>>; 10 and 13 (\n, \r) are not used, and
\* 233 is a character outside ASCII (two bytes in UTF-8).
CodeTable == <<
  <<"jsonrpc", "2.0", 50>>, <<"jsonrpc", "1.0", 49>>,
  <<"method", "initialize", 65>>, <<"method", "notifications/initialized", 66>>,
  <<"method", "notification/initialized", 67>>, <<"method", "tools/list", 68>>,
  <<"method", "tools/call", 69>>, <<"method", "foo", 70>>,
  <<"method", "rpc.internal", 71>>, <<"method", "RPC.x", 72>>,
  <<"id", "0", 80>>, <<"id", "1", 81>>, <<"id", "2", 82>>, <<"id", "7", 83>>,
  <<"id", "99", 84>>, <<"id", "\"a\"", 85>>, <<"id", "\"\"", 86>>,
  <<"id", "null", 87>>,
  <<"params", "initialize(2025-06-18)", 97>>, <<"params", "initialize()", 98>>,
  <<"params", "add(1,2)", 99>>, <<"params", "add(2,3)", 100>>,
  <<"params", "add(x)", 101>>, <<"params", "test_experiment_3(e-acute)", 233>>,
  <<"params", "test_experiment_3()", 102>>, <<"params", "nope()", 103>>,
  <<"params", "initialize(1999-01-01)", 104>>,
  <<"result", "serverInfo", 110>>, <<"result", "tools", 111>>,
  <<"result", "Add success: 3", 112>>, <<"result", "Add success: 5", 113>>,
  <<"result", "Experiment 3 success", 114>>, <<"result", "message: e-acute", 234>>,
  <<"error", "-32601", 120>>, <<"error", "-32603", 121>>,
  <<"error", "-32600", 122>>
>>

Members == <<"jsonrpc", "method", "id", "params", "result", "error">>

CodeOf(member, text) ==
  CodeTable[CHOOSE k \in 1..Len(CodeTable) :
              CodeTable[k][1] = member /\ CodeTable[k][2] = text][3]

IsMemberChar(c) == \E k \in 1..Len(CodeTable) : CodeTable[k][3] = c

EntryOf(c) == CodeTable[CHOOSE k \in 1..Len(CodeTable) : CodeTable[k][3] = c]

\* ---------------------------------------------------------------- UTF-8
\* Code points below 2048: one byte below 128, two bytes otherwise.
Utf8Encode(chars) ==
  LET F[k \in 0..Len(chars)] ==
        IF k = 0 THEN <<>>
        ELSE F[k - 1] \o (IF chars[k] < 128 THEN <<chars[k]>>
                          ELSE <<192 + (chars[k] \div 64), 128 + (chars[k] % 64)>>)
  IN F[Len(chars)]

\* Buffer.toString("utf-8"): an incomplete or stray byte decodes to U+FFFD.
RECURSIVE Utf8Decode(_)
Utf8Decode(bytes) ==
  IF bytes = <<>> THEN <<>>
  ELSE IF bytes[1] < 128 THEN <<bytes[1]>> \o Utf8Decode(Tail(bytes))
  ELSE IF /\ bytes[1] >= 192 /\ bytes[1] < 224 /\ Len(bytes) >= 2
          /\ bytes[2] >= 128 /\ bytes[2] < 192
       THEN <<(bytes[1] - 192) * 64 + (bytes[2] - 128)>> \o Utf8Decode(Tail(Tail(bytes)))
  ELSE <<65533>> \o Utf8Decode(Tail(bytes))

\* ---------------------------------------------- JSON.stringify / JSON.parse
MemberChars(v) ==
  LET F[k \in 0..Len(Members)] ==
        IF k = 0 THEN <<>>
        ELSE F[k - 1] \o (IF v[Members[k]] = ABSENT THEN <<>>
                          ELSE <<CodeOf(Members[k], v[Members[k]])>>)
  IN F[Len(Members)]

\* JSON.stringify(message): "{" members "}"; undefined gives "undefined".
JSONStringify(v) ==
  IF v.type = "undefined" THEN <<117>>
  ELSE <<123>> \o MemberChars(v) \o <<125>>

\* The member characters of a text, in order, as a value; a member that
\* occurs twice keeps its last occurrence, as in JSON.parse.
ParseMembers(chars) ==
  LET F[k \in 0..Len(chars)] ==
        IF k = 0 THEN Obj(ABSENT, ABSENT, ABSENT, ABSENT, ABSENT, ABSENT)
        ELSE [F[k - 1] EXCEPT ![EntryOf(chars[k])[1]] = EntryOf(chars[k])[2]]
  IN F[Len(chars)]

\* JSON.parse(line) throws a SyntaxError on a text that is not JSON.
JSONParseThrows(chars) ==
  ~ ( /\ Len(chars) >= 2
      /\ chars[1] = 123
      /\ chars[Len(chars)] = 125
      /\ \A k \in 2..(Len(chars) - 1) : IsMemberChar(chars[k]) )

JSONParse(chars) == ParseMembers(SubSeq(chars, 2, Len(chars) - 1))

\* ------------------------------------------------------------ zod schemas
\* z.object() drops the keys the schema does not name; z.unknown() accepts a
\* missing key; z.union() returns the first member that parses.
ValidId(i) == IsNumber(i) \/ IsNonEmptyString(i)

\* jsonrpcSchemaRequest
RequestSchemaOK(v) ==
  /\ v.type = "object" /\ v.jsonrpc = "2.0"
  /\ v.method # ABSENT /\ ~IsReserved(v.method)
  /\ (v.id = ABSENT \/ ValidId(v.id))
RequestSchemaData(v) == [v EXCEPT !.result = ABSENT, !.error = ABSENT]

\* jsonrpcSchemaNotification = jsonrpcSchemaRequest.omit({id, params})
NotificationSchemaOK(v) ==
  /\ v.type = "object" /\ v.jsonrpc = "2.0"
  /\ v.method # ABSENT /\ ~IsReserved(v.method)
NotificationSchemaData(v) ==
  [v EXCEPT !.id = ABSENT, !.params = ABSENT, !.result = ABSENT, !.error = ABSENT]

\* jsonrpcSchemaResponse: result is z.unknown(), so it may be missing
ResponseSchemaOK(v) == v.type = "object" /\ v.jsonrpc = "2.0" /\ ValidId(v.id)
ResponseSchemaData(v) ==
  [v EXCEPT !.method = ABSENT, !.params = ABSENT, !.error = ABSENT]

\* jsonrpcSchemaError
ErrorSchemaOK(v) ==
  /\ v.type = "object" /\ v.jsonrpc = "2.0"
  /\ v.error # ABSENT
  /\ (ValidId(v.id) \/ v.id = "null")
ErrorSchemaData(v) ==
  [v EXCEPT !.method = ABSENT, !.params = ABSENT, !.result = ABSENT]

\* JSONRPCMessageSchema.safeParse(message) of the client file
ClientSchemaOK(v) ==
  RequestSchemaOK(v) \/ NotificationSchemaOK(v) \/ ResponseSchemaOK(v) \/ ErrorSchemaOK(v)
ClientSchemaData(v) ==
  IF RequestSchemaOK(v) THEN RequestSchemaData(v)
  ELSE IF NotificationSchemaOK(v) THEN NotificationSchemaData(v)
  ELSE IF ResponseSchemaOK(v) THEN ResponseSchemaData(v)
  ELSE ErrorSchemaData(v)

\* The SDK's schemas (server file): strict objects, RequestId is a string or
\* a number, a response must carry its result.
SdkRequestId(i) == IsNumber(i) \/ IsString(i)

isJSONRPCRequest(v) ==
  /\ v.type = "object" /\ v.jsonrpc = "2.0"
  /\ v.method # ABSENT /\ SdkRequestId(v.id)
  /\ v.result = ABSENT /\ v.error = ABSENT

isJSONRPCNotification(v) ==
  /\ v.type = "object" /\ v.jsonrpc = "2.0"
  /\ v.method # ABSENT /\ v.id = ABSENT
  /\ v.result = ABSENT /\ v.error = ABSENT

isJSONRPCResponse(v) ==
  /\ v.type = "object" /\ v.jsonrpc = "2.0"
  /\ SdkRequestId(v.id) /\ v.result # ABSENT
  /\ v.method = ABSENT /\ v.params = ABSENT /\ v.error = ABSENT

isJSONRPCError(v) ==
  /\ v.type = "object" /\ v.jsonrpc = "2.0"
  /\ SdkRequestId(v.id) /\ v.error # ABSENT
  /\ v.method = ABSENT /\ v.params = ABSENT /\ v.result = ABSENT

SdkSchemaOK(v) ==
  isJSONRPCRequest(v) \/ isJSONRPCNotification(v) \/ isJSONRPCResponse(v) \/ isJSONRPCError(v)

\* JSONRPCMessageSchema.safeParse of the file a ReadBuffer belongs to
SchemaOK(flavor, v)   == IF flavor = "client" THEN ClientSchemaOK(v) ELSE SdkSchemaOK(v)
SchemaData(flavor, v) == IF flavor = "client" THEN ClientSchemaData(v) ELSE v

\* --------------------------------------------------------------- ReadBuffer
\* #_buffer is undefined or a Buffer
NoBuffer == [defined |-> FALSE, bytes |-> <<>>]

\* append(data)
ReadBuffer_append(buf, data) ==
  IF buf.defined THEN [defined |-> TRUE, bytes |-> buf.bytes \o data]
  ELSE [defined |-> TRUE, bytes |-> data]

\* clear()
ReadBuffer_clear(buf) == NoBuffer

\* Buffer.indexOf("\n"): 0-based index of the first 10, or -1
IndexOfNewline(bytes) ==
  IF \E k \in 1..Len(bytes) : bytes[k] = 10
  THEN (CHOOSE k \in 1..Len(bytes) :
          bytes[k] = 10 /\ \A j \in 1..(k - 1) : bytes[j] # 10) - 1
  ELSE -1

\* .replace(/\r$/, "")
StripCR(chars) ==
  IF chars # <<>> /\ chars[Len(chars)] = 13
  THEN SubSeq(chars, 1, Len(chars) - 1) ELSE chars

\* readMessage() when the buffer holds a newline at `index`: the line is cut
\* off, decoded, parsed and validated
ReadLine(flavor, buf, index) ==
  LET line == StripCR(Utf8Decode(SubSeq(buf.bytes, 1, index)))
      rest == [defined |-> TRUE,
               bytes |-> SubSeq(buf.bytes, index + 2, Len(buf.bytes))]
  IN IF JSONParseThrows(line)
     THEN [buf |-> rest, out |-> "throw", msg |-> NoValue]
     ELSE IF ~SchemaOK(flavor, JSONParse(line))
     THEN [buf |-> rest, out |-> "null", msg |-> NoValue]
     ELSE [buf |-> rest, out |-> "message",
           msg |-> SchemaData(flavor, JSONParse(line))]

\* a readMessage() that discards a line that is not yet complete
ReadBuffer_readMessage_dropsPartial(flavor, buf) ==
  IF ~buf.defined \/ IndexOfNewline(buf.bytes) = -1
  THEN [buf |-> NoBuffer, out |-> "null", msg |-> NoValue]
  ELSE ReadLine(flavor, buf, IndexOfNewline(buf.bytes))

\* readMessage(): the buffer afterwards and what the call gives:
\* out = "null", "message" (msg is the parsed data) or "throw" (the
\* SyntaxError of JSON.parse leaves readMessage; the line is already cut off)
ReadBuffer_readMessage(flavor, buf) ==
  IF ~buf.defined THEN [buf |-> buf, out |-> "null", msg |-> NoValue]
  ELSE LET index == IndexOfNewline(buf.bytes) IN
    IF index = -1 THEN [buf |-> buf, out |-> "null", msg |-> NoValue]
    ELSE ReadLine(flavor, buf, index)

\* The loop of the "data" handler after append: read until readMessage gives
\* null (the client tests `message === null`, the server `!message`; a parsed
\* message is an object, so both stop on null only).  `msgs` are the messages
\* handed to onMessage; threw tells that the handler was left by an exception.
RECURSIVE DrainLoop(_, _, _)
DrainLoop(flavor, buf, msgs) ==
  LET r == ReadBuffer_readMessage(flavor, buf) IN
    IF r.out = "throw" THEN [buf |-> r.buf, msgs |-> msgs, threw |-> TRUE]
    ELSE IF r.out = "null" THEN [buf |-> r.buf, msgs |-> msgs, threw |-> FALSE]
    ELSE DrainLoop(flavor, r.buf, Append(msgs, r.msg))

\* stdout.on("data") / stdin.on("data")
DataHandler(flavor, buf, chunk) == DrainLoop(flavor, ReadBuffer_append(buf, chunk), <<>>)

\* ------------------------------------------------------------------ state
VARIABLES
  \* a ReadBuffer and the data handler that drains it, fed from a byte stream
  dflavor,      \* "client" (experiment3 client) or "server" (experiment1 server)
  dinput,       \* the lines of the stream: [v: value or NoValue, bytes: line bytes]
  dfed,         \* number of bytes of the stream that have arrived
  dbuf,         \* ReadBuffer.#_buffer
  ddelivered,   \* the messages passed to onMessage so far
  dcrashed,     \* an exception left the data handler
  dpartial,     \* some data event has ended with a partial line in the buffer
  \* the client process (experiment3-raw-stdio-client.ts)
  cpc,          \* Client.connect: "new", "starting" (awaiting start()), "connected", "failed"
  subProcess,   \* StdioClientTransport.#_subProcess is set
  cbuf,         \* StdioClientTransport.#_readBuffer
  pendingRequests, \* Client.#_pendingRequests: id -> call that waits (0: no entry)
  calls,        \* the listTools()/callTool() invocations and their promises
  cclosed,      \* StdioClientTransport.close() has been called
  cchildClosed, \* the child's "close" event has been handled
  ccrashed,     \* an uncaught exception ended the client process
  \* the server process (experiment1-stdio-server.ts), the client's child
  sstart,       \* StdioServerTransport.#_start
  sbuf,         \* StdioServerTransport.#_readBuffer
  sread,        \* number of entries of sstdin the stdin handler has consumed
  sreceived,    \* the messages passed to Server's onMessage, in order
  sinflight,    \* indices of sreceived whose `await handler(message)` is pending
  sstdout,      \* what send() wrote to stdout, in order: [msg, re, closed]
  cread,        \* number of entries of sstdout the reader of stdout has consumed
  sclosed,      \* StdioServerTransport.close() has been called
  srejected,    \* indices of sreceived whose onMessage promise rejected
  sstdin,       \* the lines written to the server's stdin, in order: [msg, closed]
  sstate,       \* "none" (not spawned), "running", "crashed" (ended by an
                \* uncaught exception or an unhandled rejection)
  \* one transport object driven by a caller of start() / close() / send()
  tflavor,      \* "client" (StdioClientTransport) or "server" (StdioServerTransport)
  tstart,       \* StdioServerTransport.#_start
  tsub,         \* StdioClientTransport.#_subProcess: the child it refers to, 0: undefined
  tchildren,    \* the children spawned so far, in order: "alive" or "exited"
  tlisteners,   \* number of "data" listeners wired to process.stdin
  tsinks,       \* the output sinks (process.stdout, or the stdin of each child):
                \* [buffered, needDrain, drains]
  tsends,       \* the send() calls that wrote, in order: [sink, full, drainsAtWrite, state]
  tlog,         \* the calls made on the transport, in order: [op, threw, signalled]
  \* the HTTP endpoint of jsonrpc.ts
  hposts,       \* the POSTs handled so far, in order: [body, status, response]
  \* the readline JSON-RPC server of chat-jsonrpc.ts
  isServerOnline, \* let isServerOnline
  rlclosed,     \* rl.close() has been called
  rlog,         \* the lines handled so far, in order: [line, out, response, online]
  \* an MCP endpoint with a session table (createMCPRouter, httpServer.ts)
  mflavor,      \* "express" (createMCPRouter and its copies) or "http" (httpServer.ts)
  sessions,     \* the session table: session id -> transport (0: no entry)
  mtransports,  \* the transports constructed so far, in order: [initialized, sessionId]
  mlog          \* the POSTs handled so far, in order:
                \* [sid, body, status, code, transport, created]

dvars == <<dflavor, dinput, dfed, dbuf, ddelivered, dcrashed, dpartial>>
cvars == <<cpc, subProcess, cbuf, pendingRequests, calls, cclosed,
           cchildClosed, ccrashed>>
svars == <<sstart, sbuf, sread, sreceived, sinflight, sstdout, cread, sclosed,
           srejected, sstdin, sstate>>
tvars == <<tflavor, tstart, tsub, tchildren, tlisteners, tsinks, tsends, tlog>>
hvars == <<hposts>>
rvars == <<isServerOnline, rlclosed, rlog>>
mvars == <<mflavor, sessions, mtransports, mlog>>
vars == <<dvars, cvars, svars, tvars, hvars, rvars, mvars>>

\* send(): JSON.stringify(message) + "\n"
WireLine(v) == Utf8Encode(JSONStringify(v)) \o <<10>>

\* the same line as a peer with CRLF line ends writes it
WireLineCRLF(v) == Utf8Encode(JSONStringify(v)) \o <<13, 10>>

\* "bad-json\n"
BadJsonLine == <<98, 97, 100, 10>>

\* Lines a stream is built from: the four shapes (one with a two-byte
\* character), a JSON object of no shape, a request and a notification of
\* methods that start with "rpc.", a message with a method whose id is the
\* empty string, a text that is not JSON.
DecodeLines ==
  { [v |-> Request("tools/call", "2", "test_experiment_3(e-acute)"),
     bytes |-> WireLine(Request("tools/call", "2", "test_experiment_3(e-acute)"))],
    [v |-> Request("foo", "1", ABSENT),
     bytes |-> WireLineCRLF(Request("foo", "1", ABSENT))],
    [v |-> Notification("notifications/initialized"),
     bytes |-> WireLine(Notification("notifications/initialized"))],
    [v |-> SuccessResponse("1", "message: e-acute"),
     bytes |-> WireLine(SuccessResponse("1", "message: e-acute"))],
    [v |-> ErrorResponse("2", "-32601"),
     bytes |-> WireLine(ErrorResponse("2", "-32601"))],
    [v |-> Obj("1.0", "foo", "1", ABSENT, ABSENT, ABSENT),
     bytes |-> WireLine(Obj("1.0", "foo", "1", ABSENT, ABSENT, ABSENT))],
    [v |-> Request("rpc.internal", "1", ABSENT),
     bytes |-> WireLine(Request("rpc.internal", "1", ABSENT))],
    [v |-> Notification("RPC.x"),
     bytes |-> WireLine(Notification("RPC.x"))],
    [v |-> Request("foo", "\"\"", ABSENT),
     bytes |-> WireLine(Request("foo", "\"\"", ABSENT))],
    [v |-> NoValue, bytes |-> BadJsonLine] }

SeqsUpTo(S, n) == UNION { [1..k -> S] : k \in 1..n }

RECURSIVE Flatten(_)
Flatten(ls) == IF ls = <<>> THEN <<>> ELSE Head(ls).bytes \o Flatten(Tail(ls))

Stream == Flatten(dinput)

\* every id text a message can carry
IdTexts == {"0", "1", "2", "7", "99", "\"a\"", "\"\"", "null"}

\* the two processes as their constructors leave them
InitProcesses ==
  /\ cpc = "new"
  /\ subProcess = FALSE
  /\ cbuf = NoBuffer
  /\ pendingRequests = [i \in IdTexts |-> 0]
  /\ calls = <<>>
  /\ cclosed = FALSE
  /\ cchildClosed = FALSE
  /\ ccrashed = FALSE
  /\ sstart = FALSE
  /\ sbuf = NoBuffer
  /\ sread = 0
  /\ sreceived = <<>>
  /\ sinflight = {}
  /\ sstdout = <<>>
  /\ cread = 0
  /\ sclosed = FALSE
  /\ srejected = {}
  /\ sstdin = <<>>
  /\ sstate = "none"

\* no transport object has been constructed apart from those of the processes
InitNoTransport ==
  /\ tflavor = "none"
  /\ tstart = FALSE
  /\ tsub = 0
  /\ tchildren = <<>>
  /\ tlisteners = 0
  /\ tsinks = <<>>
  /\ tsends = <<>>
  /\ tlog = <<>>

\* the HTTP endpoint has handled nothing
InitNoHttp == hposts = <<>>

\* the readline server has read nothing
InitNoChat ==
  /\ isServerOnline = FALSE
  /\ rlclosed = FALSE
  /\ rlog = <<>>

\* randomUUID(): the ids the session id generator gives, in order
GeneratedIds == <<"s1", "s2", "s3", "s4", "s5">>

\* values of the session id header: missing, empty, ids the generator gives,
\* an id it never gave
HeaderValues == {ABSENT, "", "s1", "s2", "s9"}

\* every key the session table can be asked for
SessionKeys == HeaderValues \cup {GeneratedIds[k] : k \in 1..Len(GeneratedIds)}

\* no endpoint with a session table has been set up
InitNoSessions ==
  /\ mflavor = "none"
  /\ sessions = [k \in SessionKeys |-> 0]
  /\ mtransports = <<>>
  /\ mlog = <<>>

InitDecode ==
  /\ dflavor \in {"client", "server"}
  /\ dinput \in SeqsUpTo(DecodeLines, MaxLines)
  /\ dfed = 0
  /\ dbuf = NoBuffer
  /\ ddelivered = <<>>
  /\ dcrashed = FALSE
  /\ dpartial = FALSE
  /\ InitProcesses
  /\ InitNoTransport
  /\ InitNoHttp
  /\ InitNoChat
  /\ InitNoSessions

\* A "data" event with the next n bytes of the stream: append, then the loop.
\* An exception that leaves the handler is uncaught and ends the process.
StreamData(n) ==
  /\ ~dcrashed
  /\ n \in 1..(Len(Stream) - dfed)
  /\ LET r == DataHandler(dflavor, dbuf, SubSeq(Stream, dfed + 1, dfed + n)) IN
       /\ dbuf' = r.buf
       /\ ddelivered' = ddelivered \o r.msgs
       /\ dcrashed' = r.threw
       /\ dpartial' = (dpartial \/ (r.buf.bytes # <<>> /\ IndexOfNewline(r.buf.bytes) = -1))
  /\ dfed' = dfed + n
  /\ UNCHANGED <<dflavor, dinput, cvars, svars, tvars, hvars, rvars, mvars>>

NextDecode == \E n \in 1..Len(Stream) : StreamData(n)

SpecDecode == InitDecode /\ [][NextDecode]_vars

\* ------------------------------------------------------------------- Server
\* a ?? b
Coalesce(a, b) == IF a = ABSENT \/ a = "null" THEN b ELSE a

\* Server.#_requestHandlers after the constructor and the two
\* server.setRequestHandler calls of the file
HasHandler(method) ==
  method \in {"initialize", "notifications/initialized", "tools/list", "tools/call"}

\* isInitializeRequest(request), InitializeRequestSchema.safeParse(value) of
\* the SDK: method "initialize" with well-formed params (a protocol version
\* of any text, capabilities, clientInfo); jsonrpc and id are not looked at
isInitializeRequest(req) ==
  /\ req.method = "initialize"
  /\ req.params \in {"initialize(2025-06-18)", "initialize(1999-01-01)"}

Returns(v) == [threw |-> FALSE, value |-> v]
Throws     == [threw |-> TRUE, value |-> NoValue]

\* InitializeRequestSchema handler
InitializeHandler(req) ==
  IF ~isInitializeRequest(req)
  THEN Returns(ErrorResponse(Coalesce(req.id, "99"), "-32601"))
  ELSE Returns(SuccessResponse(Coalesce(req.id, "99"), "serverInfo"))

\* InitializedNotificationSchema handler: returns nothing on either branch
InitializedHandler(req) == Returns(NoValue)

\* ListToolsRequestSchema handler
ListToolsHandler(req) == Returns(SuccessResponse(Coalesce(req.id, "99"), "tools"))

\* CallToolRequestSchema handler
CallToolHandler(req) ==
  IF req.params = "test_experiment_3(e-acute)"
    THEN Returns(SuccessResponse(Coalesce(req.id, "99"), "Experiment 3 success"))
  ELSE IF req.params = "test_experiment_3()" THEN Throws
  ELSE IF req.params = "add(1,2)"
    THEN Returns(SuccessResponse(Coalesce(req.id, "99"), "Add success: 3"))
  ELSE IF req.params = "add(2,3)"
    THEN Returns(SuccessResponse(Coalesce(req.id, "99"), "Add success: 5"))
  ELSE IF req.params = "add(x)" THEN Throws
  ELSE Returns(ErrorResponse(Coalesce(req.id, "null"), "-32601"))

\* this.#_requestHandlers.get(message.method) applied to the message
Handler(req) ==
  IF req.method = "initialize" THEN InitializeHandler(req)
  ELSE IF req.method = "notifications/initialized" THEN InitializedHandler(req)
  ELSE IF req.method = "tools/list" THEN ListToolsHandler(req)
  ELSE CallToolHandler(req)

\* onMessage without its notification test, answering whatever names a method
Server_onMessage_answersNotifications(message) ==
  IF message.method # ABSENT
  THEN (IF HasHandler(message.method) THEN "await" ELSE "notFound")
  ELSE "ignore"

\* onMessage without its else branch: a method without handler gets no reply
Server_onMessage_dropsUnknown(message) ==
  IF isJSONRPCNotification(message) THEN "ignore"
  ELSE IF isJSONRPCRequest(message) /\ HasHandler(message.method) THEN "await"
  ELSE "ignore"

\* What onMessage does with a message before its first suspension:
\* "ignore" (a notification, or neither notification nor request),
\* "await" (a handler is called and awaited), "notFound" (the -32601 reply
\* is sent at once).
Server_onMessage(message) ==
  IF isJSONRPCNotification(message) THEN "ignore"
  ELSE IF isJSONRPCRequest(message)
       THEN (IF HasHandler(message.method) THEN "await" ELSE "notFound")
  ELSE "ignore"

\* StdioServerTransport.send(message): the line is written whether or not
\* close() has been called.  `re` is the index in sreceived of the message
\* whose handling made the call.
ServerSendEntry(message, re, closed) == [msg |-> message, re |-> re, closed |-> closed]
StdioServerTransport_send(sent, message, re, closed) ==
  Append(sent, ServerSendEntry(message, re, closed))

\* a loop that hands a message on only while no handler is awaited
ServerDeliver_serial(msgs, received, inflight, sent, closed) ==
  IF msgs = <<>> \/ inflight # {}
  THEN [received |-> received, inflight |-> inflight, sent |-> sent]
  ELSE [received |-> Append(received, Head(msgs)),
        inflight |-> IF Server_onMessage(Head(msgs)) = "await"
                     THEN {Len(received) + 1} ELSE {},
        sent |-> IF Server_onMessage(Head(msgs)) = "notFound"
                 THEN StdioServerTransport_send(sent, ErrorResponse(Head(msgs).id, "-32601"),
                                                Len(received) + 1, closed)
                 ELSE sent]

\* the loop body `this.onMessage?.(message)` over the messages of one chunk
RECURSIVE ServerDeliver(_, _, _, _, _)
ServerDeliver(msgs, received, inflight, sent, closed) ==
  IF msgs = <<>> THEN [received |-> received, inflight |-> inflight, sent |-> sent]
  ELSE LET m == Head(msgs)
           k == Len(received) + 1
           what == Server_onMessage(m)
       IN ServerDeliver(Tail(msgs), Append(received, m),
            IF what = "await" THEN inflight \cup {k} ELSE inflight,
            IF what = "notFound"
              THEN StdioServerTransport_send(sent, ErrorResponse(m.id, "-32601"), k, closed)
              ELSE sent,
            closed)

RECURSIVE WireOf(_)
WireOf(entries) ==
  IF entries = <<>> THEN <<>> ELSE WireLine(Head(entries).msg) \o WireOf(Tail(entries))

\* server.connect(transport): transport.start() of a transport not yet started
ServerStart ==
  /\ sstate = "running"
  /\ ~sstart
  /\ sstart' = TRUE
  /\ UNCHANGED <<dvars, tvars, hvars, rvars, mvars, cvars, sbuf, sread, sreceived, sinflight, sstdout, cread,
                 sclosed, srejected, sstdin, sstate>>

\* stdin "data" with the next n lines the client wrote
ServerStdinData(n) ==
  /\ sstart /\ sstate = "running"
  /\ n \in 1..(Len(sstdin) - sread)
  /\ LET r == DataHandler("server", sbuf, WireOf(SubSeq(sstdin, sread + 1, sread + n)))
         d == ServerDeliver(r.msgs, sreceived, sinflight, sstdout, sclosed)
     IN /\ sbuf' = r.buf
        /\ sreceived' = d.received
        /\ sinflight' = d.inflight
        /\ sstdout' = d.sent
        /\ sstate' = IF r.threw THEN "crashed" ELSE sstate
  /\ sread' = sread + n
  /\ UNCHANGED <<dvars, tvars, hvars, rvars, mvars, cvars, sstart, cread, sclosed, srejected, sstdin>>

\* `await handler(message)` of request k completes.  A handler that returned
\* has its value sent; a handler that threw rejects the promise of onMessage,
\* which nothing handles: depending on the runtime's unhandled-rejection mode
\* the process ends or goes on.
ServerResume(k, ends) ==
  /\ sstate = "running"
  /\ k \in sinflight
  /\ sinflight' = sinflight \ {k}
  /\ IF Handler(sreceived[k]).threw
     THEN /\ srejected' = srejected \cup {k}
          /\ sstate' = IF ends THEN "crashed" ELSE sstate
          /\ UNCHANGED sstdout
     ELSE /\ sstdout' = StdioServerTransport_send(sstdout, Handler(sreceived[k]).value, k, sclosed)
          /\ ends = FALSE
          /\ UNCHANGED <<srejected, sstate>>
  /\ UNCHANGED <<dvars, tvars, hvars, rvars, mvars, cvars, sstart, sbuf, sread, sreceived, cread, sclosed, sstdin>>

\* StdioServerTransport.close(): clears the buffer; onClose is not set by Server
ServerClose ==
  /\ sstate = "running"
  /\ sbuf' = ReadBuffer_clear(sbuf)
  /\ sclosed' = TRUE
  /\ UNCHANGED <<dvars, tvars, hvars, rvars, mvars, cvars, sstart, sread, sreceived, sinflight, sstdout, cread,
                 srejected, sstdin, sstate>>

\* ------------------------------------------------------------------- Client
initializeRequest == Request("initialize", "0", "initialize(2025-06-18)")
initializedNotification == Notification("notification/initialized")
toolsListRequest == Request("tools/list", "1", ABSENT)
toolsCallRequest(params) == Request("tools/call", "2", params)

\* callTool({toolName, args}) as the params it builds
ToolCalls == {"add(2,3)", "add(x)", "nope()"}

StdinEntry(message, closed) == [msg |-> message, closed |-> closed]

\* StdioClientTransport.send(message): throws when #_subProcess is unset,
\* else writes the line to the child's stdin
StdioClientTransport_sendThrows(sub) == ~sub
StdioClientTransport_send(pipe, message, closed) ==
  Append(pipe, StdinEntry(message, closed))

\* a call of listTools()/callTool(): the request, its promise, once the
\* promise is settled the message it resolved with, and whether the call was
\* waiting when close() was called
NewCall(request, state) ==
  [request |-> request, state |-> state, value |-> NoValue, atClose |-> FALSE]

\* onMessage resolving the oldest waiting call instead of the one registered
\* under the id of the message
Client_onMessage_byArrival(message, pending, cs) ==
  IF message.id = ABSENT THEN [pending |-> pending, calls |-> cs]
  ELSE IF \E i \in DOMAIN pending : pending[i] # 0
       THEN LET i == CHOOSE i \in DOMAIN pending :
                       /\ pending[i] # 0
                       /\ \A j \in DOMAIN pending : pending[j] # 0 => pending[i] <= pending[j]
            IN [pending |-> [pending EXCEPT ![i] = 0],
                calls |-> [cs EXCEPT ![pending[i]] =
                             [@ EXCEPT !.state = "resolved", !.value = message]]]
  ELSE [pending |-> pending, calls |-> cs]

\* onMessage calling the resolver without deleting its entry
Client_onMessage_keepsEntry(message, pending, cs) ==
  IF message.id = ABSENT THEN [pending |-> pending, calls |-> cs]
  ELSE IF pending[message.id] # 0
       THEN [pending |-> pending,
             calls |-> [cs EXCEPT ![pending[message.id]] =
                          [@ EXCEPT !.state = "resolved", !.value = message]]]
  ELSE [pending |-> pending, calls |-> cs]

\* Client.connect's onMessage for one message
Client_onMessage(message, pending, cs) ==
  IF message.id = ABSENT THEN [pending |-> pending, calls |-> cs]
  ELSE IF pending[message.id] # 0
       THEN [pending |-> [pending EXCEPT ![message.id] = 0],
             calls |-> [cs EXCEPT ![pending[message.id]] =
                          [@ EXCEPT !.state = "resolved", !.value = message]]]
  ELSE [pending |-> pending, calls |-> cs]

RECURSIVE ClientDeliver(_, _, _)
ClientDeliver(msgs, pending, cs) ==
  IF msgs = <<>> THEN [pending |-> pending, calls |-> cs]
  ELSE LET r == Client_onMessage(Head(msgs), pending, cs)
       IN ClientDeliver(Tail(msgs), r.pending, r.calls)

\* client.connect(transport) up to `await start()`: onMessage is set and
\* start() spawns the child
ClientConnect ==
  /\ ~ccrashed
  /\ cpc = "new"
  /\ ~subProcess
  /\ subProcess' = TRUE
  /\ cpc' = "starting"
  /\ sstate' = "running"
  /\ UNCHANGED <<dvars, tvars, hvars, rvars, mvars, cbuf, pendingRequests, calls, cclosed, cchildClosed, ccrashed,
                 sstart, sbuf, sread, sreceived, sinflight, sstdout, cread, sclosed,
                 srejected, sstdin>>

\* the child's "spawn" event resolves start(); connect goes on with
\* send(initializeRequest) and send(initializedNotification)
ChildSpawned ==
  /\ ~ccrashed
  /\ cpc = "starting"
  /\ IF StdioClientTransport_sendThrows(subProcess)
     THEN /\ cpc' = "failed"
          /\ UNCHANGED sstdin
     ELSE /\ cpc' = "connected"
          /\ sstdin' = StdioClientTransport_send(
                         StdioClientTransport_send(sstdin, initializeRequest, cclosed),
                         initializedNotification, cclosed)
  /\ UNCHANGED <<dvars, tvars, hvars, rvars, mvars, subProcess, cbuf, pendingRequests, calls, cclosed,
                 cchildClosed, ccrashed,
                 sstart, sbuf, sread, sreceived, sinflight, sstdout, cread, sclosed,
                 srejected, sstate>>

\* new Promise((resolve) => this.#_pendingRequests.set(id, resolve))
RegisterPending(pending, id, call) == [pending EXCEPT ![id] = call]

\* the body shared by listTools() and callTool(), called once connect() has
\* settled: register the resolver under the request's id, then send; a send
\* that throws rejects the call
ClientCall(request) ==
  /\ ~ccrashed
  /\ cpc \in {"connected", "failed"}
  /\ Len(calls) < MaxCalls
  /\ pendingRequests' = RegisterPending(pendingRequests, request.id, Len(calls) + 1)
  /\ IF StdioClientTransport_sendThrows(subProcess)
     THEN /\ calls' = Append(calls, NewCall(request, "rejected"))
          /\ UNCHANGED sstdin
     ELSE /\ calls' = Append(calls, NewCall(request, "awaiting"))
          /\ sstdin' = StdioClientTransport_send(sstdin, request, cclosed)
  /\ UNCHANGED <<dvars, tvars, hvars, rvars, mvars, cpc, subProcess, cbuf, cclosed, cchildClosed, ccrashed,
                 sstart, sbuf, sread, sreceived, sinflight, sstdout, cread, sclosed,
                 srejected, sstate>>

ListTools == ClientCall(toolsListRequest)

CallTool(params) == ClientCall(toolsCallRequest(params))

\* the child's stdout "data" with the next n lines the server wrote
ClientStdoutData(n) ==
  /\ ~ccrashed
  /\ cpc # "new"
  /\ n \in 1..(Len(sstdout) - cread)
  /\ LET r == DataHandler("client", cbuf, WireOf(SubSeq(sstdout, cread + 1, cread + n)))
         d == ClientDeliver(r.msgs, pendingRequests, calls)
     IN /\ cbuf' = r.buf
        /\ pendingRequests' = d.pending
        /\ calls' = d.calls
        /\ ccrashed' = r.threw
  /\ cread' = cread + n
  /\ UNCHANGED <<dvars, tvars, hvars, rvars, mvars, cpc, subProcess, cclosed, cchildClosed,
                 sstart, sbuf, sread, sreceived, sinflight, sstdout, sclosed,
                 srejected, sstdin, sstate>>

\* StdioClientTransport.close(): forgets the child and clears the buffer; the
\* child is not ended and its listeners stay
ClientClose ==
  /\ ~ccrashed
  /\ cpc # "new"
  /\ subProcess' = FALSE
  /\ cbuf' = ReadBuffer_clear(cbuf)
  /\ cclosed' = TRUE
  /\ calls' = [c \in 1..Len(calls) |->
                IF calls[c].state = "awaiting"
                THEN [calls[c] EXCEPT !.atClose = TRUE] ELSE calls[c]]
  /\ UNCHANGED <<dvars, tvars, hvars, rvars, mvars, svars, cpc, pendingRequests, cchildClosed, ccrashed>>

\* the child's "close" event, after the child has ended and its output has
\* been read: #_subProcess is unset; onClose is not set by Client
ChildClosed ==
  /\ ~ccrashed
  /\ cpc # "new"
  /\ sstate = "crashed" /\ cread = Len(sstdout)
  /\ ~cchildClosed
  /\ cchildClosed' = TRUE
  /\ subProcess' = FALSE
  /\ UNCHANGED <<dvars, tvars, hvars, rvars, mvars, svars, cpc, cbuf, pendingRequests, calls, cclosed, ccrashed>>

\* ------------------------------------------------- the server on its own
\* Lines a peer writes to the stdin of the server: a request of a method
\* without handler, notifications with and without handler, tool calls that
\* succeed and that make the handler throw, and a request for the method
\* whose handler returns nothing
PeerMessages ==
  { Request("foo", "7", ABSENT),
    Request("tools/call", "2", "add(1,2)"),
    Request("notifications/initialized", "7", ABSENT),
    Notification("foo"),
    Notification("notifications/initialized"),
    Request("tools/call", "2", "add(x)"),
    Request("tools/list", "1", ABSENT) }

PeerWrite(message) ==
  /\ sstate = "running"
  /\ Len(sstdin) < MaxInput
  /\ sstdin' = Append(sstdin, StdinEntry(message, FALSE))
  /\ UNCHANGED <<dvars, tvars, hvars, rvars, mvars, cvars, sstart, sbuf, sread, sreceived, sinflight, sstdout,
                 cread, sclosed, srejected, sstate>>

\* the peer reads the stdout of the server
PeerRead(n) ==
  /\ n \in 1..(Len(sstdout) - cread)
  /\ cread' = cread + n
  /\ UNCHANGED <<dvars, tvars, hvars, rvars, mvars, cvars, sstart, sbuf, sread, sreceived, sinflight, sstdout,
                 sclosed, srejected, sstdin, sstate>>

\* --------------------------------------------------------- specifications
InitIdle ==
  /\ dflavor = "client"
  /\ dinput = <<>>
  /\ dfed = 0
  /\ dbuf = NoBuffer
  /\ ddelivered = <<>>
  /\ dcrashed = FALSE
  /\ dpartial = FALSE

\* the client program and the server it spawns
Init ==
  InitIdle /\ InitProcesses /\ InitNoTransport /\ InitNoHttp /\ InitNoChat /\ InitNoSessions

Next ==
  \/ ClientConnect
  \/ ChildSpawned
  \/ ListTools
  \/ \E p \in ToolCalls : CallTool(p)
  \/ \E n \in 1..(MaxCalls + 2) : ClientStdoutData(n)
  \/ ClientClose
  \/ ChildClosed
  \/ ServerStart
  \/ \E n \in 1..(MaxCalls + 2) : ServerStdinData(n)
  \/ \E k \in 1..(MaxCalls + 2), ends \in BOOLEAN : ServerResume(k, ends)

Spec == Init /\ [][Next]_vars

\* the server program started by a peer that writes PeerMessages
InitServer ==
  /\ InitIdle
  /\ InitNoTransport
  /\ InitNoHttp
  /\ InitNoChat
  /\ InitNoSessions
  /\ cpc = "new"
  /\ subProcess = FALSE
  /\ cbuf = NoBuffer
  /\ pendingRequests = [i \in IdTexts |-> 0]
  /\ calls = <<>>
  /\ cclosed = FALSE
  /\ cchildClosed = FALSE
  /\ ccrashed = FALSE
  /\ sstart = FALSE
  /\ sbuf = NoBuffer
  /\ sread = 0
  /\ sreceived = <<>>
  /\ sinflight = {}
  /\ sstdout = <<>>
  /\ cread = 0
  /\ sclosed = FALSE
  /\ srejected = {}
  /\ sstdin = <<>>
  /\ sstate = "running"

NextServer ==
  \/ \E m \in PeerMessages : PeerWrite(m)
  \/ \E n \in 1..MaxInput : PeerRead(n)
  \/ ServerStart
  \/ \E n \in 1..MaxInput : ServerStdinData(n)
  \/ \E k \in 1..MaxInput, ends \in BOOLEAN : ServerResume(k, ends)
  \/ ServerClose

SpecServer == InitServer /\ [][NextServer]_vars

\* ------------------------------------------------- the client on its own
\* Lines a child writes to its stdout, whatever program it runs: a response
\* to tools/list, requests of its own that carry the ids 1 and 2, and a
\* notification
ChildMessages ==
  { SuccessResponse("1", "tools"),
    Request("foo", "1", ABSENT),
    Request("foo", "2", ABSENT),
    Notification("foo") }

ChildWrite(message) ==
  /\ sstate = "running"
  /\ Len(sstdout) < MaxOutput
  /\ sstdout' = Append(sstdout, ServerSendEntry(message, 0, FALSE))
  /\ UNCHANGED <<dvars, tvars, hvars, rvars, mvars, cvars, sstart, sbuf, sread, sreceived,
                 sinflight, cread, sclosed, srejected, sstdin, sstate>>

NextClient ==
  \/ ClientConnect
  \/ ChildSpawned
  \/ ListTools
  \/ \E p \in ToolCalls : CallTool(p)
  \/ \E m \in ChildMessages : ChildWrite(m)
  \/ \E n \in 1..MaxOutput : ClientStdoutData(n)

\* the client program with a child that writes ChildMessages
SpecClient == Init /\ [][NextClient]_vars

\* ------------------------------------------- one transport and its caller
\* A transport object on its own: a caller makes up to MaxOps calls of
\* start(), close() and send() in any order, with onClose set; the output
\* sink takes the written lines at its own pace, and a spawned child may end
\* at any time.

\* a Writable: lines buffered, whether "drain" is owed, "drain" events so far
NewSink == [buffered |-> 0, needDrain |-> FALSE, drains |-> 0]

\* stream.write(json): the line is buffered in any case; the result is false
\* once the buffer has reached the high-water mark
Writable_write(sink) ==
  [sink |-> [sink EXCEPT !.buffered = @ + 1,
                         !.needDrain = @ \/ (sink.buffered + 1 >= HighWaterMark)],
   canWrite |-> sink.buffered + 1 < HighWaterMark]

\* a send() that returns at once whatever write() reported
SendState_noWait(canWrite) == "done"

\* if (!canWrite) { await once(stream, "drain"); }
SendState(canWrite) == IF canWrite THEN "done" ELSE "waiting"

LogEntry(op, threw, signalled) == [op |-> op, threw |-> threw, signalled |-> signalled]

\* send() from its write on, to sink k
Transport_write(k) ==
  LET w == Writable_write(tsinks[k]) IN
    /\ tsinks' = [tsinks EXCEPT ![k] = w.sink]
    /\ tsends' = Append(tsends, [sink |-> k, full |-> ~w.canWrite,
                                 drainsAtWrite |-> tsinks[k].drains,
                                 state |-> SendState(w.canWrite)])

\* StdioClientTransport.start(): throws while #_subProcess is set, else
\* spawns a child and wires its listeners
StdioClientTransport_start ==
  IF tsub # 0
  THEN /\ tlog' = Append(tlog, LogEntry("start", TRUE, FALSE))
       /\ UNCHANGED <<tsub, tchildren, tsinks>>
  ELSE /\ tchildren' = Append(tchildren, "alive")
       /\ tsub' = Len(tchildren) + 1
       /\ tsinks' = Append(tsinks, NewSink)
       /\ tlog' = Append(tlog, LogEntry("start", FALSE, FALSE))

\* StdioServerTransport.start(): throws once #_start is set, else sets it and
\* wires a "data" listener to stdin
StdioServerTransport_start ==
  IF tstart
  THEN /\ tlog' = Append(tlog, LogEntry("start", TRUE, FALSE))
       /\ UNCHANGED <<tstart, tlisteners>>
  ELSE /\ tstart' = TRUE
       /\ tlisteners' = tlisteners + 1
       /\ tlog' = Append(tlog, LogEntry("start", FALSE, FALSE))

TransportStart ==
  /\ Len(tlog) < MaxOps
  /\ IF tflavor = "client"
     THEN StdioClientTransport_start /\ UNCHANGED <<tstart, tlisteners>>
     ELSE StdioServerTransport_start /\ UNCHANGED <<tsub, tchildren, tsinks>>
  /\ UNCHANGED <<dvars, cvars, svars, hvars, rvars, mvars, tflavor, tsends>>

\* close(): the client transport forgets its child and signals nothing; the
\* server transport calls onClose on every call.  Neither ends the child or
\* removes a listener, and the server transport keeps #_start.
TransportClose ==
  /\ Len(tlog) < MaxOps
  /\ IF tflavor = "client"
     THEN /\ tsub' = 0
          /\ tlog' = Append(tlog, LogEntry("close", FALSE, FALSE))
     ELSE /\ tlog' = Append(tlog, LogEntry("close", FALSE, TRUE))
          /\ UNCHANGED tsub
  /\ UNCHANGED <<dvars, cvars, svars, hvars, rvars, mvars, tflavor, tstart, tchildren,
                 tlisteners, tsinks, tsends>>

\* send(message): the client transport throws without a child, else writes
\* to the stdin of the child; the server transport writes to process.stdout
TransportSend ==
  /\ Len(tlog) < MaxOps
  /\ IF tflavor = "client" /\ tsub = 0
     THEN /\ tlog' = Append(tlog, LogEntry("send", TRUE, FALSE))
          /\ UNCHANGED <<tsinks, tsends>>
     ELSE /\ Transport_write(IF tflavor = "client" THEN tsub ELSE 1)
          /\ tlog' = Append(tlog, LogEntry("send", FALSE, FALSE))
  /\ UNCHANGED <<dvars, cvars, svars, hvars, rvars, mvars, tflavor, tstart, tsub, tchildren,
                 tlisteners>>

\* the reader of sink k takes one line; when the buffer empties and a write
\* had reported it full, "drain" is emitted and every once(stream, "drain")
\* on it resolves
SinkFlush(k) ==
  /\ k \in 1..Len(tsinks)
  /\ tsinks[k].buffered > 0
  /\ tflavor = "client" => tchildren[k] = "alive"
  /\ LET drain == tsinks[k].buffered = 1 /\ tsinks[k].needDrain IN
       /\ tsinks' = [tsinks EXCEPT ![k] =
                       [buffered |-> @.buffered - 1,
                        needDrain |-> IF drain THEN FALSE ELSE @.needDrain,
                        drains |-> IF drain THEN @.drains + 1 ELSE @.drains]]
       /\ tsends' = [i \in 1..Len(tsends) |->
                       IF drain /\ tsends[i].sink = k /\ tsends[i].state = "waiting"
                       THEN [tsends[i] EXCEPT !.state = "done"] ELSE tsends[i]]
  /\ UNCHANGED <<dvars, cvars, svars, hvars, rvars, mvars, tflavor, tstart, tsub, tchildren,
                 tlisteners, tlog>>

\* the "close" event of child k, which has ended: the handler wired by
\* start() unsets #_subProcess and calls onClose
ChildCloseEvent(k) ==
  /\ k \in 1..Len(tchildren)
  /\ tchildren[k] = "alive"
  /\ tchildren' = [tchildren EXCEPT ![k] = "exited"]
  /\ tsub' = 0
  /\ tlog' = Append(tlog, LogEntry("childClose", FALSE, TRUE))
  /\ UNCHANGED <<dvars, cvars, svars, hvars, rvars, mvars, tflavor, tstart, tlisteners, tsinks,
                 tsends>>

InitTransport ==
  /\ InitIdle
  /\ InitProcesses
  /\ InitNoHttp
  /\ InitNoChat
  /\ InitNoSessions
  /\ tflavor \in {"client", "server"}
  /\ tstart = FALSE
  /\ tsub = 0
  /\ tchildren = <<>>
  /\ tlisteners = 0
  /\ tsinks = IF tflavor = "server" THEN <<NewSink>> ELSE <<>>
  /\ tsends = <<>>
  /\ tlog = <<>>

NextTransport ==
  \/ TransportStart
  \/ TransportClose
  \/ TransportSend
  \/ \E k \in 1..MaxOps : SinkFlush(k)
  \/ \E k \in 1..MaxOps : ChildCloseEvent(k)

SpecTransport == InitTransport /\ [][NextTransport]_vars

\* ------------------------------------- the HTTP endpoint of jsonrpc.ts
\* params texts of the endpoint: arrays of numbers, and a string
IsNumberArray(p) == p \in {"[5,3]", "[5]"}
ArrayLength(p)   == IF p = "[5,3]" THEN 2 ELSE 1

\* params[0] - params[1]
Subtract(p) == IF p = "[5,3]" THEN "2" ELSE "NaN"

\* jsonrpcSchema.safeParse(req.body)
V1SchemaOK(b) ==
  /\ b.type = "object" /\ b.jsonrpc = "2.0"
  /\ b.method # ABSENT
  /\ (b.params = ABSENT \/ IsNumberArray(b.params))
  /\ (b.id = ABSENT \/ ValidId(b.id))

\* if (id): undefined, 0 and "" are falsy
Truthy(i) == i \notin {ABSENT, "0", "\"\"", "null"}

HttpResponse(status, response) == [status |-> status, response |-> response]

\* app.post("/jsonrpc") of the first version: the status and the JSON body
\* of the response; status 0 stands for no response being sent at all
JsonrpcV1(body) ==
  IF ~V1SchemaOK(body)
  THEN HttpResponse(400, Obj("2.0", ABSENT, ABSENT, ABSENT, ABSENT, "-32600"))
  ELSE IF body.method = "subtract"
  THEN ( IF body.params = ABSENT \/ ArrayLength(body.params) # 2
         THEN HttpResponse(400, Obj("2.0", ABSENT, ABSENT, ABSENT, ABSENT, "-32602"))
         ELSE HttpResponse(200, Obj(body.jsonrpc, ABSENT,
                                    IF Truthy(body.id) THEN body.id ELSE ABSENT,
                                    ABSENT, Subtract(body.params), ABSENT)) )
  ELSE HttpResponse(0, NoValue)

\* bodies a client posts: subtract requests with the ids 0, 7, "a", "" and
\* null, a notification, requests with bad params, an unknown method, a
\* wrong version
HttpBodies ==
  { Request("subtract", "0", "[5,3]"),
    Request("subtract", "7", "[5,3]"),
    Request("subtract", "\"a\"", "[5,3]"),
    Request("subtract", "\"\"", "[5,3]"),
    Request("subtract", "null", "[5,3]"),
    Request("subtract", ABSENT, "[5,3]"),
    Request("subtract", "7", "[5]"),
    Request("subtract", "7", ABSENT),
    Request("foo", "7", ABSENT),
    Obj("1.0", "subtract", "7", "[5,3]", ABSENT, ABSENT) }

HttpPost(body) ==
  /\ Len(hposts) < MaxPosts
  /\ hposts' = Append(hposts, [body |-> body,
                               status |-> JsonrpcV1(body).status,
                               response |-> JsonrpcV1(body).response])
  /\ UNCHANGED <<dvars, cvars, svars, tvars, rvars, mvars>>

InitHttp ==
  /\ InitIdle /\ InitProcesses /\ InitNoTransport /\ InitNoChat /\ InitNoSessions
  /\ hposts = <<>>

NextHttp == \E body \in HttpBodies : HttpPost(body)

SpecHttp == InitHttp /\ [][NextHttp]_vars

\* ------------------------------ the readline server of chat-jsonrpc.ts
\* jsonrpcSchemaRequest.safeParse(request)
ChatRequestSchemaOK(v) ==
  /\ v.type = "object" /\ v.jsonrpc = "2.0"
  /\ v.method # ABSENT /\ ~IsReserved(v.method)
  /\ (v.id = ABSENT \/ ValidId(v.id))

\* initializeRequestParamsSchema.safeParse(params): a supported protocol
\* version, capabilities and clientInfo; undefined does not parse
InitializeParamsOK(p) == p = "initialize(2025-06-18)"

\* what one "line" event does: out is "close" (rl.close()), "text" (the
\* catch block prints a sentence), "none" (nothing is printed) or "response"
\* (the response is printed); online is isServerOnline afterwards
LineResult(out, response, online) ==
  [out |-> out, response |-> response, online |-> online]

\* "stop"
StopLine == <<115, 116, 111, 112>>

\* a handler that draws isServerOnline before it validates the params
LineHandler_drawsBeforeParams(line, online, random) ==
  IF line = StopLine THEN LineResult("close", NoValue, online)
  ELSE IF JSONParseThrows(line) THEN LineResult("text", NoValue, online)
  ELSE LET request == JSONParse(line)
           id == Coalesce(request.id, "null")
       IN
    IF ~ChatRequestSchemaOK(request)
    THEN LineResult("response", ErrorResponse(id, "-32600"), online)
    ELSE IF request.id = ABSENT THEN LineResult("none", NoValue, online)
    ELSE IF request.method = "initialize"
    THEN ( IF ~InitializeParamsOK(request.params)
           THEN LineResult("response", ErrorResponse(id, "-32000"), random)
           ELSE IF ~random
           THEN LineResult("response", ErrorResponse(id, "-32002"), FALSE)
           ELSE LineResult("response", SuccessResponse(id, "serverInfo"), TRUE) )
    ELSE IF request.method = "tools/list"
    THEN ( IF ~online
           THEN LineResult("response", ErrorResponse(id, "-32002"), online)
           ELSE LineResult("response", SuccessResponse(id, "tools"), online) )
    ELSE LineResult("response", ErrorResponse(id, "-32601"), online)

\* rl.on("line", async (line) => ...): the handler has no await, so it runs
\* to its end; random is the outcome of Math.random() < 0.5
LineHandler(line, online, random) ==
  IF line = StopLine THEN LineResult("close", NoValue, online)
  ELSE IF JSONParseThrows(line) THEN LineResult("text", NoValue, online)
  ELSE LET request == JSONParse(line)
           id == Coalesce(request.id, "null")
       IN
    IF ~ChatRequestSchemaOK(request)
    THEN LineResult("response", ErrorResponse(id, "-32600"), online)
    ELSE IF request.id = ABSENT THEN LineResult("none", NoValue, online)
    ELSE IF request.method = "initialize"
    THEN ( IF ~InitializeParamsOK(request.params)
           THEN LineResult("response", ErrorResponse(id, "-32000"), online)
           ELSE IF ~random
           THEN LineResult("response", ErrorResponse(id, "-32002"), FALSE)
           ELSE LineResult("response", SuccessResponse(id, "serverInfo"), TRUE) )
    ELSE IF request.method = "tools/list"
    THEN ( IF ~online
           THEN LineResult("response", ErrorResponse(id, "-32002"), online)
           ELSE LineResult("response", SuccessResponse(id, "tools"), online) )
    ELSE LineResult("response", ErrorResponse(id, "-32601"), online)

ChatLineOf(v) == [v |-> v, chars |-> JSONStringify(v)]

\* lines a user types: initialize requests with good params, with bad
\* params, with an unsupported version and with none, an initialize
\* notification, tools/list as a request and as a notification, an unknown
\* method, a tools/list whose id is the empty string, a wrong version, a
\* text that is not JSON, "stop"
ChatLines ==
  { ChatLineOf(Request("initialize", "1", "initialize(2025-06-18)")),
    ChatLineOf(Request("initialize", "2", "initialize()")),
    ChatLineOf(Request("initialize", "2", "initialize(1999-01-01)")),
    ChatLineOf(Request("initialize", "\"a\"", ABSENT)),
    ChatLineOf(Request("initialize", ABSENT, "initialize(2025-06-18)")),
    ChatLineOf(Request("tools/list", "2", ABSENT)),
    ChatLineOf(Notification("tools/list")),
    ChatLineOf(Request("foo", "1", ABSENT)),
    ChatLineOf(Request("tools/list", "\"\"", ABSENT)),
    ChatLineOf(Obj("1.0", "initialize", "1", "initialize(2025-06-18)", ABSENT, ABSENT)),
    [v |-> NoValue, chars |-> <<98, 97, 100>>],
    [v |-> NoValue, chars |-> StopLine] }

\* a "line" event of the readline interface.  rl.close() does not take back
\* the lines of a chunk that has been read already, so "line" events may
\* still follow it.
RlLine(l, random) ==
  /\ Len(rlog) < MaxChat
  /\ LET r == LineHandler(l.chars, isServerOnline, random) IN
       /\ isServerOnline' = r.online
       /\ rlclosed' = (rlclosed \/ r.out = "close")
       /\ rlog' = Append(rlog, [line |-> l, out |-> r.out,
                                response |-> r.response, online |-> r.online])
  /\ UNCHANGED <<dvars, cvars, svars, tvars, hvars, mvars>>

InitChat ==
  /\ InitIdle /\ InitProcesses /\ InitNoTransport /\ InitNoHttp /\ InitNoSessions
  /\ InitNoChat

NextChat == \E l \in ChatLines, random \in BOOLEAN : RlLine(l, random)

SpecChat == InitChat /\ [][NextChat]_vars


\* --------------------- an MCP endpoint with a session table (POST handler)
\* the isInitializeRequest that httpServer.ts declares: an object whose
\* method is "initialize"
isInitializeRequest_local(b) == b.type = "object" /\ b.method = "initialize"

\* if (sid && typeof sid === "string"), if (sessionId): a header that is
\* missing or empty is falsy
HasSessionId(sid) == sid # ABSENT /\ sid # ""

\* what the handler does before transport.handleRequest: the status it
\* answers with (0: it answers nothing itself), the code of the JSON-RPC
\* error in the body (ABSENT: the body is plain text, or nothing is
\* answered), the transport it goes on with (0: none) and whether that
\* transport was constructed for this request
Routed(status, code, transport, constructed) ==
  [status |-> status, code |-> code, transport |-> transport,
   constructed |-> constructed]

\* router.post("/") of createMCPRouter, app.post("/mcp/high-level"),
\* app.post("/mcp"): the branch on the session id header
ExpressRoute(table, transports, sid, body) ==
  IF HasSessionId(sid)
  THEN ( IF table[sid] = 0 THEN Routed(404, "-32000", 0, FALSE)
         ELSE Routed(0, ABSENT, table[sid], FALSE) )
  ELSE IF isInitializeRequest(body)
  THEN Routed(0, ABSENT, Len(transports) + 1, TRUE)
  ELSE Routed(400, "-32000", 0, FALSE)

\* the request handler of httpServer.ts: the same branch, answered with
\* text/plain bodies
HttpServerRoute(table, transports, sid, body) ==
  IF HasSessionId(sid)
  THEN ( IF table[sid] = 0 THEN Routed(404, ABSENT, 0, FALSE)
         ELSE Routed(0, ABSENT, table[sid], FALSE) )
  ELSE IF isInitializeRequest_local(body)
  THEN Routed(0, ABSENT, Len(transports) + 1, TRUE)
  ELSE Routed(400, ABSENT, 0, FALSE)

Route(flavor, table, transports, sid, body) ==
  IF flavor = "express" THEN ExpressRoute(table, transports, sid, body)
  ELSE HttpServerRoute(table, transports, sid, body)

\* new StreamableHTTPServerTransport({sessionIdGenerator, onsessioninitialized})
NewTransport == [initialized |-> FALSE, sessionId |-> ABSENT]

\* sessionIdGenerator(): the next id nobody has been given
NextSessionId(transports) ==
  GeneratedIds[1 + Cardinality({k \in 1..Len(transports) : transports[k].initialized})]

\* transport.handleRequest(req, res, body) as far as the session goes: a
\* transport that is not initialized takes a JSON-RPC initialize request whose
\* headers it accepts, draws its session id and calls onsessioninitialized;
\* every other request leaves it as it is
Transport_initializes(t, body, accepted) ==
  accepted /\ SdkSchemaOK(body) /\ isInitializeRequest(body) /\ ~t.initialized

\* bodies a client posts: an initialize request, one whose params lack the
\* client info, an object with nothing but a method and params, one with
\* nothing but the method, a tools/list request
McpBodies ==
  { Request("initialize", "1", "initialize(2025-06-18)"),
    Request("initialize", "1", "initialize()"),
    Obj(ABSENT, "initialize", ABSENT, "initialize(2025-06-18)", ABSENT, ABSENT),
    Obj(ABSENT, "initialize", ABSENT, ABSENT, ABSENT, ABSENT),
    Request("tools/list", "2", ABSENT) }

\* a POST to the endpoint: the branch, then transport.handleRequest with the
\* onsessioninitialized callback that stores the session
McpPost(sid, body, accepted) ==
  /\ mflavor # "none"
  /\ Len(mlog) < MaxRequests
  /\ LET r == Route(mflavor, sessions, mtransports, sid, body)
         known == IF r.constructed THEN Append(mtransports, NewTransport)
                  ELSE mtransports
         inits == r.transport # 0
                    /\ Transport_initializes(known[r.transport], body, accepted)
         id == NextSessionId(mtransports)
     IN
       /\ mtransports' = IF inits
                         THEN [known EXCEPT ![r.transport] =
                                 [initialized |-> TRUE, sessionId |-> id]]
                         ELSE known
       /\ sessions' = IF inits THEN [sessions EXCEPT ![id] = r.transport]
                      ELSE sessions
       /\ mlog' = Append(mlog, [sid |-> sid, body |-> body, status |-> r.status,
                                code |-> r.code, transport |-> r.transport,
                                created |-> IF inits THEN id ELSE ABSENT])
  /\ mflavor' = mflavor
  /\ UNCHANGED <<dvars, cvars, svars, tvars, hvars, rvars>>

InitSessions ==
  /\ InitIdle /\ InitProcesses /\ InitNoTransport /\ InitNoHttp /\ InitNoChat
  /\ mflavor \in {"express", "http"}
  /\ sessions = [k \in SessionKeys |-> 0]
  /\ mtransports = <<>>
  /\ mlog = <<>>

NextSessions ==
  \E sid \in HeaderValues, body \in McpBodies, accepted \in BOOLEAN :
    McpPost(sid, body, accepted)

SpecSessions == InitSessions /\ [][NextSessions]_vars


\* ================================================================ claims
\* The four message shapes of the data model.
IsValidMessage(v) ==
  /\ v.type = "object" /\ v.jsonrpc = "2.0"
  /\ \/ /\ v.method # ABSENT /\ ~IsReserved(v.method)
        /\ (v.id = ABSENT \/ ValidId(v.id))
        /\ v.result = ABSENT /\ v.error = ABSENT
     \/ /\ v.method = ABSENT /\ v.params = ABSENT
        /\ v.result # ABSENT /\ v.error = ABSENT /\ ValidId(v.id)
     \/ /\ v.method = ABSENT /\ v.params = ABSENT
        /\ v.result = ABSENT /\ v.error # ABSENT /\ (ValidId(v.id) \/ v.id = "null")

\* number of complete lines among the bytes that have arrived
LinesFed == Cardinality({k \in 1..dfed : Stream[k] = 10})

\* C1 (chunk-boundary invariance).  When every line of the stream is a valid
\* message, then however the stream is cut into chunks, after each data event
\* the messages handed to onMessage are exactly the messages of the lines
\* that have arrived completely, once each and in stream order.
C1_ChunkBoundaryInvariance ==
  (\A k \in 1..Len(dinput) : IsValidMessage(dinput[k].v))
    => /\ ~dcrashed
       /\ ddelivered = [k \in 1..LinesFed |-> dinput[k].v]

\* C2 (correlation correctness).  Every call that has completed did so with
\* a message the server wrote whose id is the id of the call's own request,
\* whatever the order in which the responses arrived.
C2_CorrelationCorrectness ==
  \A c \in 1..Len(calls) :
    calls[c].state = "resolved"
      => /\ calls[c].value.id = calls[c].request.id
         /\ \E k \in 1..cread : calls[c].value = ClientSchemaData(sstdout[k].msg)

\* C2: requests 1 and 2 were both outstanding, the response to the one sent
\* later was written and read first, and both calls have completed.
C2_Witness ==
  /\ Len(calls) = 2
  /\ calls[1].request.id # calls[2].request.id
  /\ calls[1].state = "resolved" /\ calls[2].state = "resolved"
  /\ \E a, b \in 1..cread :
       /\ a < b
       /\ sstdout[a].msg.id = calls[2].request.id
       /\ sstdout[b].msg.id = calls[1].request.id

\* no event is left for either event loop: connect() has settled, both pipes
\* have been read to their end and no handler is awaited
Quiescent ==
  /\ cpc # "starting"
  /\ sstate = "running" => (sstart /\ sread = Len(sstdin) /\ sinflight = {})
  /\ cread = Len(sstdout)
  /\ sstate = "crashed" => cchildClosed

\* C3 (close drains pending).  After close() no caller stays suspended: once
\* every event there is has been handled, each call that was waiting when
\* close() was called has completed with an error.
C3_CloseDrainsPending ==
  (cclosed /\ ~ccrashed /\ Quiescent)
    => \A c \in 1..Len(calls) : calls[c].atClose => calls[c].state = "rejected"

\* C4 (malformed-line isolation).  Once the stream "bad-json\n" followed by a
\* valid request line has arrived, the process is still up and exactly the
\* request has been handed to onMessage.
C4_MalformedLineIsolation ==
  ( /\ Len(dinput) = 2
    /\ dinput[1].v = NoValue
    /\ dinput[2].v = Request("foo", "1", ABSENT)
    /\ dfed = Len(Stream) )
    => /\ ~dcrashed
       /\ ddelivered = <<Request("foo", "1", ABSENT)>>

\* the lines the server wrote while handling message k
RepliesTo(k) == {j \in 1..Len(sstdout) : sstdout[j].re = k}

IsInboundRequest(m) == m.method # ABSENT /\ m.id # ABSENT

\* C5 (unknown method).  For every request handed to the server's onMessage
\* whose method has no handler, the server has written exactly one line, the
\* error response with code -32601 and the id of the request.
C5_UnknownMethod ==
  \A k \in 1..Len(sreceived) :
    (IsInboundRequest(sreceived[k]) /\ ~HasHandler(sreceived[k].method))
      => /\ Cardinality(RepliesTo(k)) = 1
         /\ \A j \in RepliesTo(k) :
              sstdout[j].msg = ErrorResponse(sreceived[k].id, "-32601")

\* C5: a request for the method foo, which has no handler, has been answered.
C5_Witness ==
  \E k \in 1..Len(sreceived) :
    /\ sreceived[k] = Request("foo", "7", ABSENT)
    /\ \E j \in RepliesTo(k) : sstdout[j].msg = ErrorResponse("7", "-32601")

\* C6 (handler failure becomes an error response).  Once the handling of a
\* request whose handler threw is over, the server has written the error
\* response with code -32603 and the id of the request, and the failure has
\* not left onMessage: no rejection is unhandled and the process is up.
C6_HandlerFailureAnswered ==
  \A k \in 1..Len(sreceived) :
    ( /\ IsInboundRequest(sreceived[k]) /\ HasHandler(sreceived[k].method)
      /\ Handler(sreceived[k]).threw
      /\ k \notin sinflight )
      => /\ \E j \in RepliesTo(k) :
              sstdout[j].msg = ErrorResponse(sreceived[k].id, "-32603")
         /\ k \notin srejected
         /\ sstate = "running"

\* C7 (end-to-end call).  While both transports are open: once the server's
\* handling of a request with a registered handler is over, it has written a
\* success response with the id of the request; and a call that has completed
\* did so with the success response written for its own request.
C7_EndToEndCall ==
  (~cclosed /\ ~sclosed) =>
    /\ \A k \in 1..Len(sreceived) :
         ( /\ IsInboundRequest(sreceived[k]) /\ HasHandler(sreceived[k].method)
           /\ k \notin sinflight )
           => \E j \in RepliesTo(k) :
                /\ sstdout[j].msg.result # ABSENT
                /\ sstdout[j].msg.id = sreceived[k].id
    /\ \A c \in 1..Len(calls) :
         calls[c].state = "resolved"
           => \E k \in 1..Len(sreceived) : \E j \in RepliesTo(k) :
                /\ sreceived[k] = calls[c].request
                /\ sstdout[j].msg.result # ABSENT
                /\ calls[c].value = sstdout[j].msg

\* C8 (notifications are never answered).  No line the server wrote answers
\* a message that has a method and no id.
C8_NotificationsNeverAnswered ==
  \A k \in 1..Len(sreceived) :
    (sreceived[k].method # ABSENT /\ sreceived[k].id = ABSENT)
      => RepliesTo(k) = {}

\* C8: the server has been handed a notification for a method with a handler
\* and one for a method without, has read all its input and is idle.
C8_Witness ==
  /\ \E k \in 1..Len(sreceived) : sreceived[k] = Notification("notifications/initialized")
  /\ \E k \in 1..Len(sreceived) : sreceived[k] = Notification("foo")
  /\ sread = Len(sstdin) /\ sinflight = {}

\* C9 (duplicate id is rejected).  A caller that is still waiting keeps its
\* slot: the entry under the id of its request is its own.
C9_DuplicateIdRejected ==
  \A c \in 1..Len(calls) :
    calls[c].state = "awaiting" => pendingRequests[calls[c].request.id] = c

\* C10 (use after close).  No line is written to the output sink of either
\* transport by a send() that is called after close().
C10_UseAfterClose ==
  /\ \A j \in 1..Len(sstdout) : ~sstdout[j].closed
  /\ \A j \in 1..Len(sstdin) : ~sstdin[j].closed

\* C11 (close is idempotent).  Of the close() calls made on one transport,
\* the first signals onClose and no later one does.
C11_CloseIdempotent ==
  \A i \in 1..Len(tlog) :
    tlog[i].op = "close"
      => (tlog[i].signalled <=> \A j \in 1..(i - 1) : tlog[j].op # "close")

\* C12 (double start is rejected).  A start() called after a start() that
\* succeeded fails, and at most one child is spawned and at most one "data"
\* listener wired.
C12_DoubleStartRejected ==
  /\ \A i, j \in 1..Len(tlog) :
       (i < j /\ tlog[i].op = "start" /\ ~tlog[i].threw /\ tlog[j].op = "start")
         => tlog[j].threw
  /\ Len(tchildren) <= 1
  /\ tlisteners <= 1

\* C13 (closed is terminal).  Once a transport that was started has been
\* closed, no start() called later starts it again: it spawns no child and
\* wires no listener.
C13_ClosedIsTerminal ==
  \A h, i, j \in 1..Len(tlog) :
    ( /\ h < i /\ i < j
      /\ tlog[h].op = "start" /\ ~tlog[h].threw
      /\ tlog[i].op = "close"
      /\ tlog[j].op = "start" )
      => tlog[j].threw

\* C14 (backpressure).  A send() whose write found room has returned; a
\* send() whose write reported the buffer full has returned only if the sink
\* has emitted "drain" since that write.
C14_Backpressure ==
  \A i \in 1..Len(tsends) :
    /\ ~tsends[i].full => tsends[i].state = "done"
    /\ (tsends[i].full /\ tsends[i].state = "done")
         => tsinks[tsends[i].sink].drains > tsends[i].drainsAtWrite

\* C14: one send() found room and has returned, and one that found the
\* buffer full has returned after the sink's drain.
C14_Witness ==
  /\ \E i \in 1..Len(tsends) : ~tsends[i].full /\ tsends[i].state = "done"
  /\ \E i \in 1..Len(tsends) : tsends[i].full /\ tsends[i].state = "done"

\* C15 (reserved prefix rejection).  No message handed to onMessage names a
\* method that starts with "rpc." in any letter case, and no line with such
\* a method is handed on in any form: at most the other complete lines are.
C15_ReservedPrefixRejected ==
  /\ \A k \in 1..Len(ddelivered) : ~IsReserved(ddelivered[k].method)
  /\ Len(ddelivered) <=
       Cardinality({k \in 1..LinesFed : ~IsReserved(dinput[k].v.method)})

\* C17 (draining continues past a dropped line).  When every line of the
\* stream is JSON, then after each data event every complete line that has
\* arrived and passes validation has been handed to onMessage; none waits in
\* the buffer behind a line that was dropped.
C17_DrainingContinues ==
  (\A k \in 1..Len(dinput) : dinput[k].v # NoValue)
    => Len(ddelivered) =
         Cardinality({k \in 1..LinesFed : SchemaOK(dflavor, dinput[k].v)})

\* index in the stream of the last newline that has arrived, or 0
LastNewline ==
  IF \E k \in 1..dfed : Stream[k] = 10
  THEN CHOOSE k \in 1..dfed : Stream[k] = 10 /\ \A j \in (k + 1)..dfed : Stream[j] # 10
  ELSE 0

\* C18 (partial line persists).  When the accumulator holds no newline,
\* readMessage gives null and leaves it as it is; what it holds are exactly
\* the bytes that arrived after the last newline; and a line that arrived in
\* pieces is handed to onMessage as one message once it is complete.
C18_PartialLinePersists ==
  /\ IndexOfNewline(dbuf.bytes) = -1
       => /\ ReadBuffer_readMessage(dflavor, dbuf)
               = [buf |-> dbuf, out |-> "null", msg |-> NoValue]
          /\ dbuf.bytes = SubSeq(Stream, LastNewline + 1, dfed)
  /\ ( /\ Len(dinput) = 1 /\ dfed = Len(Stream)
       /\ dinput[1].v # NoValue /\ SchemaOK(dflavor, dinput[1].v) )
       => ddelivered = <<SchemaData(dflavor, dinput[1].v)>>

\* C18: a line with a two-byte character arrived in pieces, a data event
\* left its beginning in the buffer, and it has been handed on whole.
C18_Witness ==
  /\ Len(dinput) = 1 /\ dfed = Len(Stream) /\ dpartial
  /\ ddelivered = <<Request("tools/call", "2", "test_experiment_3(e-acute)")>>
  /\ dbuf.bytes = <<>>

\* C19 (encode/decode round trip).  Each line send() writes for a valid
\* message holds exactly one newline, its last byte; and once a ReadBuffer
\* has been fed the lines written for a sequence of valid messages, exactly
\* those messages have been handed to onMessage, in the order sent.
C19_RoundTrip ==
  ( /\ \A k \in 1..Len(dinput) :
         IsValidMessage(dinput[k].v) /\ dinput[k].bytes = WireLine(dinput[k].v)
    /\ dfed = Len(Stream) )
    => /\ \A k \in 1..Len(dinput) :
            {i \in 1..Len(dinput[k].bytes) : dinput[k].bytes[i] = 10}
              = {Len(dinput[k].bytes)}
       /\ ~dcrashed
       /\ ddelivered = [k \in 1..Len(dinput) |-> dinput[k].v]

\* C16 (response id equals request id).  Every response the endpoint sent
\* for a request with a valid id, success or error, carries the id of that
\* request.
C16_ResponseIdEqualsRequestId ==
  \A k \in 1..Len(hposts) :
    ( /\ hposts[k].body.jsonrpc = "2.0" /\ hposts[k].body.method # ABSENT
      /\ ValidId(hposts[k].body.id)
      /\ hposts[k].status # 0 )
      => hposts[k].response.id = hposts[k].body.id

\* C20 (single-use slots).  In every step: a call that has completed stays
\* as it completed; a call completes only through the entry under the id of
\* its request, and that entry is removed with it; the table changes nowhere
\* else except where a call is registered, so a message whose id has no
\* entry changes nothing; and no delivery ends the client.
C20_SingleUseSlots ==
  [][ /\ \A c \in 1..Len(calls) :
           calls[c].state = "resolved" => calls'[c] = calls[c]
      /\ \A c \in 1..Len(calls) :
           (calls[c].state # "resolved" /\ calls'[c].state = "resolved")
             => /\ pendingRequests[calls[c].request.id] = c
                /\ pendingRequests'[calls[c].request.id] = 0
      /\ \A i \in IdTexts :
           pendingRequests'[i] # pendingRequests[i]
             => \/ Len(calls') = Len(calls) + 1 /\ pendingRequests'[i] = Len(calls')
                \/ /\ pendingRequests[i] # 0 /\ pendingRequests'[i] = 0
                   /\ calls[pendingRequests[i]].state # "resolved"
                   /\ calls'[pendingRequests[i]].state = "resolved"
      /\ ~ccrashed'
    ]_vars

\* C20: two calls were registered under id 1; the first response with id 1
\* completed the call that held the entry and removed it, and a second
\* response with id 1, like the response with id 0 that no call waited for,
\* has been read and completed nothing.
C20_Witness ==
  /\ Len(calls) = 2
  /\ calls[1].request.id = "1" /\ calls[2].request.id = "1"
  /\ calls[1].state = "awaiting" /\ calls[2].state = "resolved"
  /\ pendingRequests = [i \in IdTexts |-> 0]
  /\ Cardinality({k \in 1..cread : sstdout[k].msg.id = "1"}) = 2
  /\ \E k \in 1..cread : sstdout[k].msg.id = "0"

\* C22 (concurrent handlers).  The stdin loop never waits for a handler:
\* every line that has been read has been handed to onMessage, whatever is
\* still awaited; and every response written carries the id of the request
\* whose handling wrote it, in whatever order the handlers complete.
C22_ConcurrentHandlers ==
  /\ Len(sreceived) = sread
  /\ \A j \in 1..Len(sstdout) :
       sstdout[j].msg.type = "object" => sstdout[j].msg.id = sreceived[sstdout[j].re].id

\* C22: request B was handed to onMessage while the handler of request A,
\* which arrived first, was awaited; the response to B was written first and
\* the response to A after it, each with its own id.
C22_Witness ==
  \E a, b \in 1..Len(sstdout) :
    /\ a < b
    /\ sstdout[a].re > sstdout[b].re
    /\ HasHandler(sreceived[sstdout[a].re].method)
    /\ HasHandler(sreceived[sstdout[b].re].method)
    /\ sstdout[a].msg = SuccessResponse("1", "tools")
    /\ sstdout[b].msg = SuccessResponse("2", "Add success: 3")

\* C25 (no delivery after close).  In no step taken after close() is a
\* message handed to onMessage, and the read buffer stays empty.
C25_NoDeliveryAfterClose ==
  [][ sclosed => (sreceived' = sreceived /\ sbuf'.bytes = <<>>) ]_vars

\* C27 (only well-formed frames leave the server).  Every line the server
\* wrote is the text of a message with jsonrpc "2.0", an id, and either a
\* result or an error.
C27_OnlyWellFormedFrames ==
  \A j \in 1..Len(sstdout) :
    /\ sstdout[j].msg.type = "object"
    /\ sstdout[j].msg.jsonrpc = "2.0"
    /\ sstdout[j].msg.id # ABSENT
    /\ sstdout[j].msg.method = ABSENT
    /\ (sstdout[j].msg.result # ABSENT) # (sstdout[j].msg.error # ABSENT)

\* C24 (subprocess exit fails pending calls).  Once the "close" event of the
\* ended child has been handled, no caller is still waiting: every call that
\* was outstanding has completed with an error, and calls made afterwards
\* fail at send().
C24_SubprocessExitFailsPending ==
  (cchildClosed /\ ~ccrashed)
    => \A c \in 1..Len(calls) : calls[c].state # "awaiting"

\* C26 (a failed send leaves no pending entry).  For no call that failed
\* because send() threw does the table hold the entry registered for it.
C26_FailedSendLeavesNoEntry ==
  \A c \in 1..Len(calls) :
    calls[c].state = "rejected" => pendingRequests[calls[c].request.id] # c

\* C21 (only responses resolve pending calls).  Every call that has
\* completed did so with a message that has no method: a request the child
\* sends under the id of an outstanding call completes nothing.
C21_OnlyResponsesResolve ==
  \A c \in 1..Len(calls) :
    calls[c].state = "resolved" => calls[c].value.method = ABSENT

\* C23 (message shape validation).  When every line of the stream is JSON
\* and none names a method that starts with "rpc.", then at most the lines
\* that have one of the four shapes are handed to onMessage: a line of no
\* shape, such as a method with the id "", is not handed on in any form.
C23_ShapeValidation ==
  (\A k \in 1..Len(dinput) :
      dinput[k].v # NoValue /\ ~IsReserved(dinput[k].v.method))
    => Len(ddelivered) <=
         Cardinality({k \in 1..LinesFed : IsValidMessage(dinput[k].v)})

\* C28 (a stale subprocess event does not affect the current subprocess).
\* In every step in which a child other than the one the transport refers
\* to has its "close" event handled, the reference to the current child
\* stays and onClose is not signalled.
C28_StaleChildEvent ==
  [][ \A k \in 1..Len(tchildren) :
        ( /\ tchildren[k] = "alive" /\ tchildren'[k] = "exited"
          /\ tsub # 0 /\ tsub # k )
          => /\ tsub' = tsub
             /\ ~tlog'[Len(tlog')].signalled ]_vars

\* C29: in the readline server a tools/list request with an id is answered
\* with a success response only if isServerOnline is true, which is the case
\* exactly when the most recent initialize request with valid params was
\* answered with success; when it is false the answer is an error response
\* with code -32002.  Every line that is not an initialize request with
\* valid params leaves isServerOnline as it was.
C29_IsRequest(v, m) ==
  v.type = "object" /\ v.jsonrpc = "2.0" /\ v.method = m /\ ValidId(v.id)

C29_ValidInitialize(v) ==
  C29_IsRequest(v, "initialize") /\ v.params = "initialize(2025-06-18)"

C29_OnlineBefore(j) == IF j = 1 THEN FALSE ELSE rlog[j - 1].online

C29_LastInitializeCameUp(j) ==
  \E i \in 1..(j - 1) :
    /\ C29_ValidInitialize(rlog[i].line.v)
    /\ rlog[i].response.result # ABSENT
    /\ \A k \in (i + 1)..(j - 1) : ~C29_ValidInitialize(rlog[k].line.v)

C29_OnlineGating ==
  /\ isServerOnline = (rlog # <<>> /\ rlog[Len(rlog)].online)
  /\ \A j \in 1..Len(rlog) :
       /\ C29_OnlineBefore(j) <=> C29_LastInitializeCameUp(j)
       /\ C29_IsRequest(rlog[j].line.v, "tools/list") =>
            /\ rlog[j].out = "response"
            /\ rlog[j].response.result # ABSENT => C29_OnlineBefore(j)
            /\ ~C29_OnlineBefore(j) =>
                 rlog[j].response = ErrorResponse(rlog[j].line.v.id, "-32002")
       /\ ~C29_ValidInitialize(rlog[j].line.v) =>
            rlog[j].online = C29_OnlineBefore(j)

\* an initialize that came up online, then an initialize with bad params
\* answered with -32000, then a tools/list that is answered with success
C29_Witness ==
  /\ Len(rlog) >= 3
  /\ C29_ValidInitialize(rlog[1].line.v)
  /\ rlog[1].response = SuccessResponse("1", "serverInfo")
  /\ rlog[2].response = ErrorResponse("2", "-32000")
  /\ rlog[3].response = SuccessResponse("2", "tools")

\* C30: over any sequence of POSTs to an MCP endpoint, a session entry is
\* created only by an initialize request without a session id; a request
\* with a session id that is not in the table is answered 404 with error
\* code -32000 and creates no entry; a request without a session id that is
\* not an initialize request is answered 400 with error code -32000 and
\* creates no entry; a request is handed to a transport only if it is of the
\* first kind or carries a known session id.
C30_IsInitialize(b) == b.type = "object" /\ b.method = "initialize"

C30_Known(j) == \E i \in 1..(j - 1) : mlog[i].created = mlog[j].sid

C30_SessionTable ==
  /\ \A k \in SessionKeys \ {ABSENT} :
       sessions[k] # 0 <=> \E j \in 1..Len(mlog) : mlog[j].created = k
  /\ \A j \in 1..Len(mlog) :
       /\ mlog[j].created # ABSENT =>
            ~HasSessionId(mlog[j].sid) /\ C30_IsInitialize(mlog[j].body)
       /\ (HasSessionId(mlog[j].sid) /\ ~C30_Known(j)) =>
            /\ mlog[j].status = 404 /\ mlog[j].code = "-32000"
            /\ mlog[j].created = ABSENT /\ mlog[j].transport = 0
       /\ (~HasSessionId(mlog[j].sid) /\ ~C30_IsInitialize(mlog[j].body)) =>
            /\ mlog[j].status = 400 /\ mlog[j].code = "-32000"
            /\ mlog[j].created = ABSENT /\ mlog[j].transport = 0
       /\ mlog[j].transport # 0 =>
            \/ ~HasSessionId(mlog[j].sid) /\ C30_IsInitialize(mlog[j].body)
            \/ HasSessionId(mlog[j].sid) /\ C30_Known(j)

====
